---- MODULE Spec2Model ----
(***************************************************************************)
(* Model of bluesky-github-action: main's embed selection, the image       *)
(* pipeline (image.go), the video pipeline (video.go) and the rich-text    *)
(* scanner / link-card fetcher (facet.go).                                 *)
(*                                                                         *)
(* A Go string is a sequence of one-character strings, so that Split,      *)
(* TrimSpace, filepath.Ext, ToLower and Sprintf are computed, not assumed. *)
(* A file's contents are its length and whether image.DecodeConfig can     *)
(* read a header from it.  Time is counted in seconds.                     *)
(***************************************************************************)
EXTENDS Integers, Sequences, FiniteSets, TLC

VARIABLES pc, args, session, facets, embed, err, exitCode, post,
          requests, reads, video, images, fnIn, fnOut

vars == <<pc, args, session, facets, embed, err, exitCode, post,
          requests, reads, video, images, fnIn, fnOut>>

(***************************************************************************)
(* Strings                                                                 *)
(***************************************************************************)
Uppers == <<"A","B","C","D","E","F","G","H","I","J","K","L","M",
            "N","O","P","Q","R","S","T","U","V","W","X","Y","Z">>

Lowers == <<"a","b","c","d","e","f","g","h","i","j","k","l","m",
            "n","o","p","q","r","s","t","u","v","w","x","y","z">>

Digits == <<"0","1","2","3","4","5","6","7","8","9">>

SetMin(S) == CHOOSE x \in S : \A y \in S : x <= y

SetMax(S) == CHOOSE x \in S : \A y \in S : x >= y

\* unicode.IsSpace on the characters of the model's alphabet
IsSpace(c) == c \in {" ", "\t", "\n", "\r"}

\* strings.TrimSpace
TrimSpace(s) ==
    LET keep == {k \in 1..Len(s) : ~IsSpace(s[k])}
    IN  IF keep = {} THEN <<>> ELSE SubSeq(s, SetMin(keep), SetMax(keep))

\* a ToLower that leaves the case as it is
ToLowerIdentity(s) == s

\* strings.ToLower
ToLower(s) ==
    [k \in 1..Len(s) |->
        IF \E u \in 1..Len(Uppers) : Uppers[u] = s[k]
        THEN Lowers[CHOOSE u \in 1..Len(Uppers) : Uppers[u] = s[k]]
        ELSE s[k]]

\* strings.Split(s, ","): never empty, Split("") is one empty segment
RECURSIVE Split(_)
Split(s) ==
    LET commas == {k \in 1..Len(s) : s[k] = ","}
    IN  IF commas = {} THEN <<s>>
        ELSE LET k == SetMin(commas)
             IN  <<SubSeq(s, 1, k - 1)>> \o Split(SubSeq(s, k + 1, Len(s)))

\* filepath.Ext: the suffix from the last dot of the last path element
Ext(path) ==
    LET seps == {k \in 1..Len(path) : path[k] = "/"}
        from == IF seps = {} THEN 1 ELSE SetMax(seps) + 1
        dots == {k \in from..Len(path) : path[k] = "."}
    IN  IF dots = {} THEN <<>> ELSE SubSeq(path, SetMax(dots), Len(path))

\* the %d verb of fmt.Sprintf, for a non-negative integer
RECURSIVE Itoa(_)
Itoa(n) == IF n < 10 THEN <<Digits[n + 1]>>
           ELSE Itoa(n \div 10) \o <<Digits[(n % 10) + 1]>>

\* strings.TrimRight(s, cutset)
RECURSIVE TrimRight(_, _)
TrimRight(s, cutset) ==
    IF s # <<>> /\ s[Len(s)] \in cutset
    THEN TrimRight(SubSeq(s, 1, Len(s) - 1), cutset)
    ELSE s

(***************************************************************************)
(* image.go: constants, format validator, alt texts, path list             *)
(***************************************************************************)
\* the image cap off by one
maxImagesPerPostPlusOne == 4 + 1

maxImagesPerPost == 4

maxImageSize == 1000000

detectImageMimeType(filename) ==
    LET ext == ToLower(Ext(filename))
    IN  CASE ext = <<".","j","p","g">> -> "image/jpeg"
          [] ext = <<".","j","p","e","g">> -> "image/jpeg"
          [] ext = <<".","p","n","g">> -> "image/png"
          [] ext = <<".","g","i","f">> -> "image/gif"
          [] ext = <<".","w","e","b","p">> -> "image/webp"
          [] OTHER -> ""
\* validateImageData with an exclusive size ceiling
validateImageDataExclusive(path, imageData) ==
    IF imageData.size >= maxImageSize THEN "ImageSizeExceeded"
    ELSE IF detectImageMimeType(path) = "" THEN "UnsupportedImageFormat"
    ELSE "nil"

\* imageData is the file's contents; only its length is inspected
validateImageData(path, imageData) ==
    IF imageData.size > maxImageSize THEN "ImageSizeExceeded"
    ELSE IF detectImageMimeType(path) = "" THEN "UnsupportedImageFormat"
    ELSE "nil"

\* getImageDimensions returning the zero dimensions when DecodeConfig fails
getImageDimensionsZero(imageData) ==
    [isNil |-> FALSE, Width |-> imageData.width, Height |-> imageData.height]

\* nil when DecodeConfig fails, the decoded width and height otherwise
getImageDimensions(imageData) ==
    IF imageData.decodes
    THEN [isNil |-> FALSE, Width |-> imageData.width, Height |-> imageData.height]
    ELSE [isNil |-> TRUE, Width |-> 0, Height |-> 0]
\* resolveAltText reusing the first alt text whenever there is one
resolveAltTextAnyFirst(index, altTexts) ==
    IF index < Len(altTexts) /\ TrimSpace(altTexts[index + 1]) # <<>>
    THEN TrimSpace(altTexts[index + 1])
    ELSE IF Len(altTexts) >= 1 /\ TrimSpace(altTexts[1]) # <<>>
    THEN TrimSpace(altTexts[1])
    ELSE <<"I","m","a","g","e"," ">> \o Itoa(index + 1)

resolveAltText(index, altTexts) ==
    IF index < Len(altTexts) /\ TrimSpace(altTexts[index + 1]) # <<>>
    THEN TrimSpace(altTexts[index + 1])
    ELSE IF Len(altTexts) = 1 /\ TrimSpace(altTexts[1]) # <<>>
    THEN TrimSpace(altTexts[1])
    ELSE <<"I","m","a","g","e"," ">> \o Itoa(index + 1)

RECURSIVE keepValidPaths(_)
keepValidPaths(paths) ==
    IF paths = <<>> THEN <<>>
    ELSE LET trimmed == TrimSpace(Head(paths))
         IN  (IF trimmed # <<>> THEN <<trimmed>> ELSE <<>>)
             \o keepValidPaths(Tail(paths))

\* parseImagePaths returning the segments as Split gives them
parseImagePathsUnfiltered(imagePaths) ==
    IF imagePaths = <<>> THEN <<>> ELSE Split(imagePaths)

parseImagePaths(imagePaths) ==
    IF imagePaths = <<>> THEN <<>> ELSE keepValidPaths(Split(imagePaths))

(***************************************************************************)
(* video.go: constants and format validator                                *)
(***************************************************************************)
maxVideoSize == 50 * 1024 * 1024

\* a poll delay of one second
videoStatusPollDelayShort == 2 - 1

videoStatusPollDelay == 2

videoStatusMaxWait == 5 * 60

detectVideoMimeType(filename) ==
    LET ext == ToLower(Ext(filename))
    IN  CASE ext = <<".","m","p","4">> -> "video/mp4"
          [] ext = <<".","m","o","v">> -> "video/quicktime"
          [] ext = <<".","w","e","b","m">> -> "video/webm"
          [] OTHER -> ""

\* validateVideoData testing the format before the size
validateVideoDataFormatFirst(path, videoData) ==
    IF detectVideoMimeType(path) = "" THEN "UnsupportedVideoFormat"
    ELSE IF videoData.size > maxVideoSize THEN "VideoSizeExceeded"
    ELSE "nil"

\* videoData is the file's contents; only its length is inspected
validateVideoData(path, videoData) ==
    IF videoData.size > maxVideoSize THEN "VideoSizeExceeded"
    ELSE IF detectVideoMimeType(path) = "" THEN "UnsupportedVideoFormat"
    ELSE "nil"

(***************************************************************************)
(* facet.go: rich-text scanner                                             *)
(***************************************************************************)
\* the characters of the model's alphabet that the URL pattern's negated
\* class excludes (white space and brackets; the alphabet has no quote,
\* backslash or backquote)
urlStopChars == {" ", "\t", "\n", "\r", "\f", "<", ">", "{", "}",
                 "|", "^", "[", "]"}

HasPrefixAt(text, p, prefix) ==
    /\ p + Len(prefix) - 1 <= Len(text)
    /\ SubSeq(text, p, p + Len(prefix) - 1) = prefix

\* length of the match of https?://[^...]+ that starts at position p, 0 if none
urlMatchLen(text, p) ==
    LET plen == IF HasPrefixAt(text, p, <<"h","t","t","p","s",":","/","/">>) THEN 8
                ELSE IF HasPrefixAt(text, p, <<"h","t","t","p",":","/","/">>) THEN 7
                ELSE 0
        stops == {k \in (p + plen)..Len(text) : text[k] \in urlStopChars}
        last  == IF stops = {} THEN Len(text) ELSE SetMin(stops) - 1
    IN  IF plen = 0 \/ last < p + plen THEN 0 ELSE last - p + 1

\* net/url.Parse on a match of the pattern: it fails when the port of the
\* authority is not a decimal number (the alphabet of TextInputs has no
\* percent sign and no control character, the other causes of failure)
urlParseOK(u) ==
    LET plen == IF HasPrefixAt(u, 1, <<"h","t","t","p","s">>) THEN 8 ELSE 7
        ends == {k \in (plen + 1)..Len(u) : u[k] \in {"/", "?", "#"}}
        aend == IF ends = {} THEN Len(u) ELSE SetMin(ends) - 1
        ats  == {k \in (plen + 1)..aend : u[k] = "@"}
        hbeg == IF ats = {} THEN plen + 1 ELSE SetMax(ats) + 1
        cols == {k \in hbeg..aend : u[k] = ":"}
    IN  cols = {} \/ \A k \in (SetMax(cols) + 1)..aend :
                        \E d \in 1..Len(Digits) : Digits[d] = u[k]

\* FindAllStringIndex followed by the loop over the matches, from position p
RECURSIVE scanFacets(_, _)
scanFacets(text, p) ==
    IF p > Len(text) THEN <<>>
    ELSE LET m == urlMatchLen(text, p)
         IN  IF m = 0 THEN scanFacets(text, p + 1)
             ELSE LET match      == SubSeq(text, p, p + m - 1)
                      cleanMatch == TrimRight(match, {".", ",", "!", "?", ";", ":"})
                      start      == p - 1
                      end        == (p - 1 + m) - (Len(match) - Len(cleanMatch))
                      facet      == [ByteStart |-> start, ByteEnd |-> end,
                                     Type |-> "app.bsky.richtext.facet#link",
                                     URI |-> cleanMatch]
                  IN  (IF urlParseOK(cleanMatch) THEN <<facet>> ELSE <<>>)
                      \o scanFacets(text, p + m)

parseRichTextFacets(text) == scanFacets(text, 1)

(***************************************************************************)
(* embed.go: embed values.  dyn is the dynamic type of the Go value held   *)
(* by the interface (or "nil" for the nil interface), isNil whether the    *)
(* pointer it holds is nil.                                                *)
(***************************************************************************)
NoBlob == [Link |-> 0]

NoExternal == [URI |-> <<>>, Title |-> ""]

NilEmbed == [dyn |-> "nil", isNil |-> TRUE, Type |-> "", Video |-> NoBlob,
             Alt |-> <<>>, Images |-> <<>>, External |-> NoExternal]

\* (*EmbedVideo)(nil), (*EmbedImages)(nil), (*EmbedExternal)(nil)
NilPointer(typ) == [NilEmbed EXCEPT !.dyn = typ]
\* EmbedVideo built with the discriminator of another embed type
EmbedVideoOtherType(blob, altText) ==
    [NilEmbed EXCEPT !.dyn = "*EmbedVideo", !.isNil = FALSE,
                     !.Type = "app.bsky.embed.images", !.Video = blob, !.Alt = altText]

\* &EmbedVideo{Type: ..., Video: *blob, Alt: altText}
EmbedVideo(blob, altText) ==
    [NilEmbed EXCEPT !.dyn = "*EmbedVideo", !.isNil = FALSE,
                     !.Type = "app.bsky.embed.video", !.Video = blob, !.Alt = altText]

\* &EmbedImages{Type: ..., Images: embedImages}
EmbedImages(embedImages) ==
    [NilEmbed EXCEPT !.dyn = "*EmbedImages", !.isNil = FALSE,
                     !.Type = "app.bsky.embed.images", !.Images = embedImages]

\* &EmbedExternal{Type: ..., External: {URI: url, Title: title, ...}}
EmbedExternal(url, title) ==
    [NilEmbed EXCEPT !.dyn = "*EmbedExternal", !.isNil = FALSE,
                     !.Type = "app.bsky.embed.external",
                     !.External = [URI |-> url, Title |-> title]]

\* EmbedImage{Alt: altText, Image: *blob, AspectRatio: aspectRatio}
EmbedImage(altText, blob, aspectRatio) ==
    [Alt |-> altText, Image |-> blob, AspectRatio |-> aspectRatio]

\* encoding/json on Post.Embed (interface{}, omitempty): the field is left
\* out for the nil interface only; an interface holding a nil pointer is
\* written as null; otherwise the struct's fields are written.
marshalEmbed(e) ==
    IF e.dyn = "nil" THEN [present |-> FALSE, null |-> FALSE, type |-> "", keys |-> {}]
    ELSE IF e.isNil THEN [present |-> TRUE, null |-> TRUE, type |-> "", keys |-> {}]
    ELSE [present |-> TRUE, null |-> FALSE, type |-> e.Type,
          keys |-> CASE e.dyn = "*EmbedVideo" -> {"$type", "video"} \cup
                                                 (IF e.Alt = <<>> THEN {} ELSE {"alt"})
                     [] e.dyn = "*EmbedImages" -> {"$type", "images"}
                     [] e.dyn = "*EmbedExternal" -> {"$type", "external"}]

(***************************************************************************)
(* Inputs: command-line arguments, files, server responses                 *)
(***************************************************************************)
MaxPaths == 5

ImageExts == << <<".","p","n","g">>, <<".","J","P","G">>, <<".","g","i","f">>,
                <<".","w","e","b","p">>, <<".","j","p","e","g">> >>

\* the k-th image file name: a.png, b.JPG, c.gif, d.webp, e.jpeg, f.png, ...
ImageName(k) == <<Lowers[k]>> \o ImageExts[((k - 1) % Len(ImageExts)) + 1]

\* a.png,b.JPG,... with n names
RECURSIVE PathList(_)
PathList(n) == IF n = 0 THEN <<>>
               ELSE IF n = 1 THEN ImageName(1)
               ELSE PathList(n - 1) \o <<",">> \o ImageName(n)

ImagePathInputs ==
    {PathList(n) : n \in 0..MaxPaths} \cup
    { <<" ", ",", " ", ",", " ">>,
      <<" ","a",".","p","n","g"," ",",",",","a",".","p","n","g">>,
      <<"d","/","a",".","p","d","f">> }

ImageAltInputs ==
    { <<>>, <<" ","a","l","l"," ">>, <<"x",","," ",",","z">> }

VideoPathInputs ==
    { <<>>, <<" ">>, <<" ","v",".","M","P","4">>, <<"v",".","a","v","i">> }

VideoAltInputs == { <<>>, <<" ">>, <<" ","c","l","i","p"," ">> }

TextPlain == <<"h","i">>

TextOneURL == <<"s","e","e"," ","h","t","t","p",":","/","/","a",".","b",".">>

TextTwoURLs == <<"h","t","t","p",":","/","/","a",":","x"," ",
                 "h","t","t","p","s",":","/","/","c","/","d",","," ",
                 "h","t","t","p",":","/","/","e">>

TextInputs == {TextPlain, TextOneURL, TextTwoURLs}

\* the argument records of the executions explored: every combination of
\* the inputs that the branch taken reads, with the inputs of the branches
\* not taken drawn from smaller sets
InputArgs ==
    [VideoPath : VideoPathInputs \ {<<>>}, VideoAltText : VideoAltInputs,
     ImagePaths : {PathList(0)}, ImageAltTexts : {<<>>},
     EnableEmbeds : {TRUE}, Text : {TextOneURL}]
    \cup
    [VideoPath : VideoPathInputs \ {<<>>}, VideoAltText : {<<>>},
     ImagePaths : {PathList(2)}, ImageAltTexts : {<<>>},
     EnableEmbeds : {TRUE}, Text : {TextOneURL}]
    \cup
    [VideoPath : {<<>>}, VideoAltText : {<<>>},
     ImagePaths : ImagePathInputs \ {<<>>}, ImageAltTexts : ImageAltInputs,
     EnableEmbeds : {TRUE}, Text : {TextPlain, TextOneURL}]
    \cup
    [VideoPath : {<<>>}, VideoAltText : {<<>>, <<" ">>},
     ImagePaths : {<<>>}, ImageAltTexts : {<<>>, <<"x">>},
     EnableEmbeds : BOOLEAN, Text : TextInputs]

\* what os.ReadFile can return for a readable image path: a length at or
\* just over the image ceiling, with or without a decodable header
ImageContents ==
    [size : {maxImageSize, maxImageSize + 1}, decodes : {FALSE}, width : {0}, height : {0}]
    \cup
    [size : {maxImageSize, maxImageSize + 1}, decodes : {TRUE}, width : {640}, height : {480}]

\* what os.ReadFile can return for a readable video path: a length at or
\* just over the video ceiling
VideoContents ==
    [size : {maxVideoSize, maxVideoSize + 1}, decodes : {FALSE}, width : {0}, height : {0}]

NoData == [size |-> 0, decodes |-> FALSE, width |-> 0, height |-> 0]

\* a response: status 0 stands for a transport error, bodyOK for a body
\* that decodes as the expected JSON
Statuses == {0, 200, 201, 500}

SimpleResponses == [status : Statuses, bodyOK : BOOLEAN]

BlobIds == {1, 2}

\* the token of a decoded service-auth body; it is empty when the body has
\* no token field
ServiceTokens == {"svcJwt1", ""}

NoStatus == [State |-> "", Blob |-> NoBlob, Error |-> ""]

JobStatuses == [State : {"JOB_STATE_ENCODING", "failed"},
                Blob : {NoBlob, [Link |-> 1]}, Error : {"", "boom"}]

\* bodies of the video service: error is the error code of an error body,
\* hasStatus whether a jobStatus object is present
VideoBodies ==
    [bodyOK : {TRUE}, error : {""}, hasStatus : {TRUE}, jobStatus : JobStatuses]
    \cup [bodyOK : {TRUE}, error : {"already_exists"}, hasStatus : {TRUE},
          jobStatus : {js \in JobStatuses :
                          \/ js.Blob # NoBlob
                          \/ js.State = "JOB_STATE_ENCODING" /\ js.Error = ""}]
    \cup [bodyOK : {TRUE}, error : {"", "already_exists", "InternalError"},
          hasStatus : {FALSE}, jobStatus : {NoStatus}]
    \cup [bodyOK : {FALSE}, error : {""}, hasStatus : {FALSE}, jobStatus : {NoStatus}]

StatusCodes == {0, 200, 409}

\* how long one job-status call takes: no time, or longer than the deadline
SlowCall == videoStatusMaxWait + 1

CallDurations == {0, SlowCall}

\* one request and what came back: the status, whether the body decoded,
\* the error code of the body, the blob it named and whether the job status
\* in it has the state failed or an error text
Req(ep, host, auth, target, status, bodyOK, error, blob, failed) ==
    [ep |-> ep, host |-> host, auth |-> auth, target |-> target,
     status |-> status, bodyOK |-> bodyOK, error |-> error, blob |-> blob,
     failed |-> failed]

NoSession == [ok |-> FALSE, AccessToken |-> "", UserID |-> ""]

NoPost == [built |-> FALSE, Text |-> <<>>, Facets |-> <<>>, Embed |-> NilEmbed,
           json |-> marshalEmbed(NilEmbed)]

NoVideo == [path |-> <<>>, altText |-> <<>>, videoData |-> NoData, mimeType |-> "",
            serviceToken |-> "", elapsed |-> 0]

NoImages == [paths |-> <<>>, alts |-> <<>>, i |-> 0, altText |-> <<>>,
             imageData |-> NoData, mimeType |-> "", embedImages |-> <<>>]

NoCall == [fn |-> "none", index |-> 0, altTexts |-> <<>>]

Init ==
    /\ pc = "createSession"
    /\ args \in InputArgs
    /\ session = NoSession
    /\ facets = <<>>
    /\ embed = NilEmbed
    /\ err = "nil"
    /\ exitCode = -1
    /\ post = NoPost
    /\ requests = <<>>
    /\ reads = <<>>
    /\ video = NoVideo
    /\ images = NoImages
    /\ fnIn = NoCall
    /\ fnOut = <<>>

(***************************************************************************)
(* main.go: main                                                           *)
(***************************************************************************)
Log(r) == requests' = Append(requests, r)

\* the branch of main's if / else-if chain that is taken
selectBranch(a, fs) ==
    IF a.VideoPath # <<>> THEN "processVideos"
    ELSE IF a.ImagePaths # <<>> THEN "processImages"
    ELSE IF a.EnableEmbeds /\ Len(fs) > 0 THEN "fetchLink"
    ELSE "publish"

Exit(code, e, emb) == [pc |-> "exited", exitCode |-> code, err |-> e, embed |-> emb]

Continue(emb) == [pc |-> "publish", exitCode |-> -1, err |-> "nil", embed |-> emb]
\* main going on to publish although processVideos returned an error
mainVideoReturnNoExit(videoEmbed, e) ==
    [pc |-> "publish", exitCode |-> -1, err |-> e, embed |-> videoEmbed]

\* main after processVideos returned (videoEmbed, e)
mainVideoReturn(videoEmbed, e) ==
    IF e # "nil" THEN Exit(1, e, NilEmbed) ELSE Continue(videoEmbed)

\* main going on to publish whatever processImages returned
mainImagesReturnNoExit(imageEmbed, e) ==
    [pc |-> "publish", exitCode |-> -1, err |-> e, embed |-> imageEmbed]

\* main after processImages returned (imageEmbed, e); the log call that
\* follows reads imageEmbed.Images, a nil pointer dereference (a panic,
\* exit status 2) when imageEmbed is nil
mainImagesReturn(imageEmbed, e) ==
    IF e # "nil" THEN Exit(1, e, NilEmbed)
    ELSE IF imageEmbed.isNil THEN Exit(2, "panic", imageEmbed)
    ELSE Continue(imageEmbed)

Return(r) ==
    /\ pc' = r.pc
    /\ exitCode' = r.exitCode
    /\ err' = r.err
    /\ embed' = r.embed

CreateSession ==
    /\ pc = "createSession"
    /\ \E resp \in SimpleResponses :
         /\ Log(Req("createSession", "pds", "", <<>>, resp.status, resp.bodyOK, "", 0,
                    FALSE))
         /\ IF resp.status = 200 /\ resp.bodyOK
            THEN /\ session' = [ok |-> TRUE, AccessToken |-> "accessJwt",
                                UserID |-> "did:plc:user"]
                 /\ pc' = "select"
                 /\ UNCHANGED <<exitCode, err>>
            ELSE /\ pc' = "exited"
                 /\ exitCode' = 1
                 /\ err' = "CreateSession"
                 /\ UNCHANGED session
    /\ UNCHANGED <<args, facets, embed, post, reads, video, images, fnIn, fnOut>>

SelectEmbed ==
    /\ pc = "select"
    /\ facets' = parseRichTextFacets(args.Text)
    /\ pc' = selectBranch(args, facets')
    /\ UNCHANGED <<args, session, embed, err, exitCode, post, requests, reads,
                   video, images, fnIn, fnOut>>

FetchLinkMetadata ==
    /\ pc = "fetchLink"
    /\ LET firstURL == facets[1].URI
       IN  \E found \in BOOLEAN :
             /\ Log(Req("linkFetch", "web", "", firstURL, IF found THEN 200 ELSE 0,
                        found, "", 0, FALSE))
             /\ embed' = IF found THEN EmbedExternal(firstURL, "title")
                         ELSE NilPointer("*EmbedExternal")
    /\ pc' = "publish"
    /\ UNCHANGED <<args, session, facets, err, exitCode, post, reads, video, images,
                   fnIn, fnOut>>

PublishPost ==
    /\ pc = "publish"
    /\ post' = [built |-> TRUE, Text |-> args.Text, Facets |-> facets,
                Embed |-> embed, json |-> marshalEmbed(embed)]
    /\ \E resp \in SimpleResponses :
         /\ Log(Req("createRecord", "pds", session.AccessToken, <<>>, resp.status,
                    resp.bodyOK, "", 0, FALSE))
         /\ pc' = "exited"
         /\ IF resp.status = 200
            THEN exitCode' = 0 /\ UNCHANGED err
            ELSE exitCode' = 1 /\ err' = "PublishPost"
    /\ UNCHANGED <<args, session, facets, embed, reads, video, images, fnIn, fnOut>>

(***************************************************************************)
(* video.go: processVideos, processVideo and the calls it makes            *)
(***************************************************************************)
\* the alt text processVideos hands to processVideo
videoAltText(altText) ==
    TrimSpace(IF altText = <<>> THEN <<"V","i","d","e","o">> ELSE altText)

\* processVideos testing only for the empty path
noVideoPathUntrimmed(videoPath) == videoPath = <<>>

\* the two early returns of processVideos
noVideoPath(videoPath) == videoPath = <<>> \/ TrimSpace(videoPath) = <<>>

ProcessVideos ==
    /\ pc = "processVideos"
    /\ IF noVideoPath(args.VideoPath)
       THEN /\ Return(mainVideoReturn(NilPointer("*EmbedVideo"), "nil"))
            /\ UNCHANGED video
       ELSE /\ video' = [video EXCEPT !.path = TrimSpace(args.VideoPath),
                                      !.altText = videoAltText(args.VideoAltText)]
            /\ pc' = "readVideo"
            /\ UNCHANGED <<exitCode, err, embed>>
    /\ UNCHANGED <<args, session, facets, post, requests, reads, images, fnIn, fnOut>>

ReadVideoFile ==
    /\ pc = "readVideo"
    /\ reads' = Append(reads, video.path)
    /\ \/ /\ Return(mainVideoReturn(NilPointer("*EmbedVideo"), "ReadVideoFile"))
          /\ UNCHANGED video
       \/ \E data \in VideoContents :
            /\ video' = [video EXCEPT !.videoData = data]
            /\ pc' = "validateVideo"
            /\ UNCHANGED <<exitCode, err, embed>>
    /\ UNCHANGED <<args, session, facets, post, requests, images, fnIn, fnOut>>

ValidateVideo ==
    /\ pc = "validateVideo"
    /\ LET e == validateVideoData(video.path, video.videoData)
       IN  IF e # "nil"
           THEN /\ Return(mainVideoReturn(NilPointer("*EmbedVideo"), e))
                /\ UNCHANGED video
           ELSE /\ video' = [video EXCEPT !.mimeType = detectVideoMimeType(video.path)]
                /\ pc' = "getServiceAuth"
                /\ UNCHANGED <<exitCode, err, embed>>
    /\ UNCHANGED <<args, session, facets, post, requests, reads, images, fnIn, fnOut>>

\* processVideo going on to the upload whatever getServiceAuthToken returned
serviceAuthAcceptedAlways(status, bodyOK) == TRUE

\* getServiceAuthToken's verdict on the response
serviceAuthAccepted(status, bodyOK) == status = 200 /\ bodyOK

GetServiceAuthToken ==
    /\ pc = "getServiceAuth"
    /\ \E resp \in SimpleResponses, token \in ServiceTokens :
         /\ Log(Req("getServiceAuth", "pds", session.AccessToken, <<>>, resp.status,
                    resp.bodyOK, "", 0, FALSE))
         /\ IF serviceAuthAccepted(resp.status, resp.bodyOK)
            THEN /\ video' = [video EXCEPT !.serviceToken = token]
                 /\ pc' = "uploadVideo"
                 /\ UNCHANGED <<exitCode, err, embed>>
            ELSE /\ Return(mainVideoReturn(NilPointer("*EmbedVideo"), "ServiceAuth"))
                 /\ UNCHANGED video
    /\ UNCHANGED <<args, session, facets, post, reads, images, fnIn, fnOut>>

\* uploadVideoToService accepting 200 alone
uploadVideoAcceptedOnly200(status, bodyOK) == status = 200 /\ bodyOK

\* uploadVideoToService's verdict on the response
uploadVideoAccepted(status, bodyOK) == status \in {200, 201} /\ bodyOK

\* the upload authorized with the session access token
uploadVideoTokenOfSession(accessToken, serviceToken) == accessToken

\* the token processVideo hands to uploadVideoToService
uploadVideoToken(accessToken, serviceToken) == serviceToken

\* processVideo polling whatever the upload response holds
blobImmediatelyAvailableNever(uploadResp) == FALSE

\* processVideo: the upload response already carries the processed blob
blobImmediatelyAvailable(uploadResp) ==
    uploadResp.hasStatus /\ uploadResp.jobStatus.Blob # NoBlob

UploadVideoToService ==
    /\ pc = "uploadVideo"
    /\ \E status \in Statuses, body \in VideoBodies :
         /\ Log(Req("uploadVideo", "video",
                    uploadVideoToken(session.AccessToken, video.serviceToken),
                    video.path, status,
                    body.bodyOK, "", body.jobStatus.Blob.Link, FALSE))
         /\ IF ~uploadVideoAccepted(status, body.bodyOK)
            THEN /\ Return(mainVideoReturn(NilPointer("*EmbedVideo"), "VideoUpload"))
                 /\ UNCHANGED video
            ELSE IF blobImmediatelyAvailable(body)
            THEN /\ Return(mainVideoReturn(EmbedVideo(body.jobStatus.Blob, video.altText),
                                           "nil"))
                 /\ UNCHANGED video
            ELSE /\ video' = [video EXCEPT !.elapsed = 0]
                 /\ pc' = "poll"
                 /\ UNCHANGED <<exitCode, err, embed>>
    /\ UNCHANGED <<args, session, facets, post, reads, images, fnIn, fnOut>>

\* getVideoJobStatus failing on every status other than 200
getVideoJobStatusOnly200(status, body) ==
    IF status # 200 \/ ~body.bodyOK THEN [err |-> "JobStatus", status |-> NoStatus]
    ELSE [err |-> "nil", status |-> body.jobStatus]

\* getVideoJobStatus's result (status, err) for a response
getVideoJobStatus(status, body) ==
    IF status = 0 THEN [err |-> "JobStatus", status |-> NoStatus]
    ELSE IF status # 200
    THEN IF body.bodyOK /\ body.error = "already_exists" /\ body.hasStatus
            /\ body.jobStatus.Blob # NoBlob
         THEN [err |-> "nil", status |-> body.jobStatus]
         ELSE [err |-> "JobStatus", status |-> NoStatus]
    ELSE IF ~body.bodyOK THEN [err |-> "JobStatus", status |-> NoStatus]
    ELSE [err |-> "nil", status |-> body.jobStatus]

\* a loop that never tests the deadline
timedOutNever(elapsed) == FALSE

\* time.Since(startTime) > videoStatusMaxWait
timedOut(elapsed) == elapsed > videoStatusMaxWait

\* pollVideoJobUntilComplete: the deadline check at the top of the loop
PollTimedOut ==
    /\ pc = "poll"
    /\ timedOut(video.elapsed)
    /\ Return(mainVideoReturn(NilPointer("*EmbedVideo"), "ProcessingTimedOut"))
    /\ UNCHANGED <<args, session, facets, post, requests, reads, video, images,
                   fnIn, fnOut>>

\* a token minted anew for the job-status calls
jobStatusTokenReminted(serviceToken) == "svcJwt2"

\* the token processVideo hands to pollVideoJobUntilComplete, which hands it
\* to every getVideoJobStatus call
jobStatusToken(serviceToken) == serviceToken

\* a loop that never finds the blob ready
blobReadyNever(status) == FALSE

\* status.Blob != nil
blobReady(status) == status.Blob # NoBlob

\* the error state test looking at the state alone
statusFailedStateOnly(status) == status.State = "failed"

\* status.State == "failed" || status.Error != ""
statusFailed(status) == status.State = "failed" \/ status.Error # ""

\* the loop testing for the error state before the blob
pollOutcomeFailureFirst(status) ==
    IF statusFailed(status) THEN "failed"
    ELSE IF blobReady(status) THEN "blob"
    ELSE "sleep"

\* what the loop does with a status it obtained
pollOutcome(status) ==
    IF blobReady(status) THEN "blob"
    ELSE IF statusFailed(status) THEN "failed"
    ELSE "sleep"

\* pollVideoJobUntilComplete: one iteration past the deadline check
PollVideoJob ==
    /\ pc = "poll"
    /\ ~timedOut(video.elapsed)
    /\ \E status \in StatusCodes, body \in VideoBodies, d \in CallDurations :
         LET r == getVideoJobStatus(status, body)
             \* the error code is only decoded from a response other than 200
             error == IF status # 200 THEN body.error ELSE ""
             failed == body.jobStatus.State = "failed" \/ body.jobStatus.Error # ""
         IN  /\ Log(Req("getJobStatus", "video", jobStatusToken(video.serviceToken), <<>>, status,
                        body.bodyOK, error, body.jobStatus.Blob.Link, failed))
             /\ IF r.err # "nil"
                THEN /\ Return(mainVideoReturn(NilPointer("*EmbedVideo"), r.err))
                     /\ video' = [video EXCEPT !.elapsed = @ + d]
                ELSE IF pollOutcome(r.status) = "blob"
                THEN /\ Return(mainVideoReturn(EmbedVideo(r.status.Blob, video.altText),
                                               "nil"))
                     /\ video' = [video EXCEPT !.elapsed = @ + d]
                ELSE IF pollOutcome(r.status) = "failed"
                THEN /\ Return(mainVideoReturn(NilPointer("*EmbedVideo"),
                                               "ProcessingFailed"))
                     /\ video' = [video EXCEPT !.elapsed = @ + d]
                ELSE /\ video' = [video EXCEPT !.elapsed = @ + d + videoStatusPollDelay]
                     /\ UNCHANGED <<pc, exitCode, err, embed>>
    /\ UNCHANGED <<args, session, facets, post, reads, images, fnIn, fnOut>>

(***************************************************************************)
(* image.go: processImages, processImage and the calls it makes            *)
(***************************************************************************)
\* processImages without the count check
tooManyImagesUnchecked(paths) == FALSE

\* the count check of processImages
tooManyImages(paths) == Len(paths) > maxImagesPerPost
\* the new entry put in front of the earlier ones
prependEmbedImage(embedImages, embedImage) == <<embedImage>> \o embedImages

\* embedImages = append(embedImages, *embedImage)
appendEmbedImage(embedImages, embedImage) == Append(embedImages, embedImage)

\* processImage going on whatever uploadBlob was answered
uploadBlobAcceptedAlways(status, bodyOK) == TRUE

\* uploadBlob's verdict on the response
uploadBlobAccepted(status, bodyOK) == status = 200 /\ bodyOK

ProcessImages ==
    /\ pc = "processImages"
    /\ LET paths == parseImagePaths(args.ImagePaths)
       IN  IF Len(paths) = 0
           THEN /\ Return(mainImagesReturn(NilPointer("*EmbedImages"), "nil"))
                /\ UNCHANGED images
           ELSE IF tooManyImages(paths)
           THEN /\ Return(mainImagesReturn(NilPointer("*EmbedImages"), "TooManyImages"))
                /\ UNCHANGED images
           ELSE /\ images' = [images EXCEPT !.paths = paths,
                                            !.alts = Split(args.ImageAltTexts),
                                            !.i = 0, !.embedImages = <<>>]
                /\ pc' = "readImage"
                /\ UNCHANGED <<exitCode, err, embed>>
    /\ UNCHANGED <<args, session, facets, post, requests, reads, video, fnIn, fnOut>>

\* the loop body up to os.ReadFile in processImage
ReadImageFile ==
    /\ pc = "readImage"
    /\ LET path == images.paths[images.i + 1]
           altText == resolveAltText(images.i, images.alts)
       IN  /\ reads' = Append(reads, path)
           /\ \/ /\ Return(mainImagesReturn(NilPointer("*EmbedImages"), "ReadImageFile"))
                 /\ UNCHANGED images
              \/ \E data \in ImageContents :
                   /\ images' = [images EXCEPT !.altText = altText, !.imageData = data]
                   /\ pc' = "validateImage"
                   /\ UNCHANGED <<exitCode, err, embed>>
    /\ UNCHANGED <<args, session, facets, post, requests, video, fnIn, fnOut>>

ValidateImage ==
    /\ pc = "validateImage"
    /\ LET path == images.paths[images.i + 1]
           e == validateImageData(path, images.imageData)
       IN  IF e # "nil"
           THEN /\ Return(mainImagesReturn(NilPointer("*EmbedImages"), e))
                /\ UNCHANGED images
           ELSE /\ images' = [images EXCEPT !.mimeType = detectImageMimeType(path)]
                /\ pc' = "uploadBlob"
                /\ UNCHANGED <<exitCode, err, embed>>
    /\ UNCHANGED <<args, session, facets, post, requests, reads, video, fnIn, fnOut>>

\* uploadBlob, the rest of processImage and the end of the loop body
UploadBlob ==
    /\ pc = "uploadBlob"
    /\ \E resp \in SimpleResponses, id \in BlobIds :
         LET path == images.paths[images.i + 1]
             ok   == uploadBlobAccepted(resp.status, resp.bodyOK)
             blob == [Link |-> id]
             embedImage == EmbedImage(images.altText, blob,
                                      getImageDimensions(images.imageData))
             embedImages == appendEmbedImage(images.embedImages, embedImage)
         IN  /\ Log(Req("uploadBlob", "pds", session.AccessToken, path, resp.status,
                        resp.bodyOK, "", IF ok THEN id ELSE 0, FALSE))
             /\ IF ~ok
                THEN /\ Return(mainImagesReturn(NilPointer("*EmbedImages"), "BlobUpload"))
                     /\ UNCHANGED images
                ELSE /\ images' = [images EXCEPT !.embedImages = embedImages, !.i = @ + 1]
                     /\ IF images.i + 1 = Len(images.paths)
                        THEN Return(mainImagesReturn(EmbedImages(embedImages), "nil"))
                        ELSE /\ pc' = "readImage"
                             /\ UNCHANGED <<exitCode, err, embed>>
    /\ UNCHANGED <<args, session, facets, post, reads, video, fnIn, fnOut>>

(***************************************************************************)
(* One execution of the program                                            *)
(***************************************************************************)
Next ==
    \/ CreateSession
    \/ SelectEmbed
    \/ ProcessVideos
    \/ ReadVideoFile
    \/ ValidateVideo
    \/ GetServiceAuthToken
    \/ UploadVideoToService
    \/ PollTimedOut
    \/ PollVideoJob
    \/ ProcessImages
    \/ ReadImageFile
    \/ ValidateImage
    \/ UploadBlob
    \/ FetchLinkMetadata
    \/ PublishPost

Spec == Init /\ [][Next]_vars

(***************************************************************************)
(* resolveAltText applied to every index and alt-text list within bounds   *)
(***************************************************************************)
MaxIndex == 11

MaxAlts == 2

AltValues == { <<>>, <<" ">>, <<"x">>, <<" ","y","z"," ">> }

AltLists == UNION {[1..n -> AltValues] : n \in 0..MaxAlts}

InitAlt ==
    /\ pc = "call"
    /\ args = CHOOSE a \in InputArgs : TRUE
    /\ session = NoSession
    /\ facets = <<>>
    /\ embed = NilEmbed
    /\ err = "nil"
    /\ exitCode = -1
    /\ post = NoPost
    /\ requests = <<>>
    /\ reads = <<>>
    /\ video = NoVideo
    /\ images = NoImages
    /\ fnIn \in [fn : {"resolveAltText"}, index : 0..MaxIndex, altTexts : AltLists]
    /\ fnOut = <<>>

CallResolveAltText ==
    /\ pc = "call"
    /\ fnIn.fn = "resolveAltText"
    /\ fnOut' = resolveAltText(fnIn.index, fnIn.altTexts)
    /\ pc' = "returned"
    /\ UNCHANGED <<args, session, facets, embed, err, exitCode, post, requests,
                   reads, video, images, fnIn>>

NextAlt == CallResolveAltText

SpecAlt == InitAlt /\ [][NextAlt]_vars

(***************************************************************************)
(* detectImageMimeType and detectVideoMimeType applied to file names       *)
(***************************************************************************)
\* the state of main's variables while a function is called on its own
HarnessIdle ==
    /\ args = CHOOSE a \in InputArgs : TRUE
    /\ session = NoSession
    /\ facets = <<>>
    /\ embed = NilEmbed
    /\ err = "nil"
    /\ exitCode = -1
    /\ post = NoPost
    /\ requests = <<>>
    /\ reads = <<>>
    /\ video = NoVideo
    /\ images = NoImages

\* what precedes the extension: plain names, a directory, a dot inside the
\* name, directories whose own names end in a media extension, nothing
MimeStems ==
    { <<>>, <<"a">>, <<"d","/","a">>, <<"a",".","b">>,
      <<"d",".","p","n","g","/","a">>, <<"d",".","m","p","4","/","a">> }

\* extensions in lower case: the eight the two switches name, none, a
\* lone dot, and unsupported ones (among them prefixes and extensions
\* of supported ones)
MimeExts ==
    { <<".","j","p","g">>, <<".","j","p","e","g">>, <<".","p","n","g">>,
      <<".","g","i","f">>, <<".","w","e","b","p">>, <<".","m","p","4">>,
      <<".","m","o","v">>, <<".","w","e","b","m">>,
      <<>>, <<".">>, <<".","a","v","i">>, <<".","p","d","f">>,
      <<".","j","p","g","x">>, <<".","p","n">>, <<".","m","p","3">>,
      <<".","w","e","b">>, <<".","j","p","e">>, <<".","t","x","t">> }

Casings == {"lower", "upper", "mixed"}

upperOf(c) ==
    IF \E l \in 1..Len(Lowers) : Lowers[l] = c
    THEN Uppers[CHOOSE l \in 1..Len(Lowers) : Lowers[l] = c]
    ELSE c

\* ext written in the given casing; mixed puts every second character
\* in upper case
WithCasing(ext, casing) ==
    [k \in 1..Len(ext) |->
        IF casing = "upper" \/ (casing = "mixed" /\ k % 2 = 0)
        THEN upperOf(ext[k]) ELSE ext[k]]

InitMime ==
    /\ pc = "call"
    /\ HarnessIdle
    /\ \E stem \in MimeStems, ext \in MimeExts, casing \in Casings :
         fnIn = [fn |-> "detectMimeType", stem |-> stem, ext |-> ext,
                 casing |-> casing, filename |-> stem \o WithCasing(ext, casing)]
    /\ fnOut = <<>>

\* both detectors applied to the same file name
CallDetectMimeType ==
    /\ pc = "call"
    /\ fnIn.fn = "detectMimeType"
    /\ fnOut' = <<detectImageMimeType(fnIn.filename), detectVideoMimeType(fnIn.filename)>>
    /\ pc' = "returned"
    /\ UNCHANGED <<args, session, facets, embed, err, exitCode, post, requests,
                   reads, video, images, fnIn>>

NextMime == CallDetectMimeType

SpecMime == InitMime /\ [][NextMime]_vars

(***************************************************************************)
(* parseImagePaths applied to every short string over a small alphabet     *)
(***************************************************************************)
MaxInputLen == 5

\* a path character, a second one, the separator and white space
PathChars == {"a", "b", ",", " "}

PathStrings == UNION {[1..n -> PathChars] : n \in 0..MaxInputLen}

InitParse ==
    /\ pc = "call"
    /\ HarnessIdle
    /\ fnIn \in [fn : {"parseImagePaths"}, imagePaths : PathStrings]
    /\ fnOut = <<>>

CallParseImagePaths ==
    /\ pc = "call"
    /\ fnIn.fn = "parseImagePaths"
    /\ fnOut' = parseImagePaths(fnIn.imagePaths)
    /\ pc' = "returned"
    /\ UNCHANGED <<args, session, facets, embed, err, exitCode, post, requests,
                   reads, video, images, fnIn>>

NextParse == CallParseImagePaths

SpecParse == InitParse /\ [][NextParse]_vars

(***************************************************************************)
(* Properties                                                              *)
(***************************************************************************)
RECURSIVE ReqsOf(_, _)
ReqsOf(ep, log) ==
    IF log = <<>> THEN <<>>
    ELSE (IF Head(log).ep = ep THEN <<Head(log)>> ELSE <<>>) \o ReqsOf(ep, Tail(log))

Sent(ep) == ReqsOf(ep, requests)

VideoEndpoints == {"getServiceAuth", "uploadVideo", "getJobStatus"}

ProcessorErrors ==
    {"ReadVideoFile", "VideoSizeExceeded", "UnsupportedVideoFormat", "ServiceAuth",
     "VideoUpload", "JobStatus", "ProcessingFailed", "ProcessingTimedOut",
     "ReadImageFile", "ImageSizeExceeded", "UnsupportedImageFormat",
     "TooManyImages", "BlobUpload"}

\* the embed kinds a marshalled embed shows, by payload key and by $type
embedKinds(j) ==
    {k \in {"video", "images", "external"} : k \in j.keys}
    \cup (IF j.type = "app.bsky.embed.video" THEN {"video"} ELSE {})
    \cup (IF j.type = "app.bsky.embed.images" THEN {"images"} ELSE {})
    \cup (IF j.type = "app.bsky.embed.external" THEN {"external"} ELSE {})

Blank(str) == \A k \in 1..Len(str) : str[k] \in {" ", "\t", "\n", "\r"}

\* r is str without its leading and trailing white space
IsTrimOf(r, str) ==
    /\ r # <<>> => ~Blank(<<r[1]>>) /\ ~Blank(<<r[Len(r)]>>)
    /\ \E a \in 0..Len(str) :
         /\ a + Len(r) <= Len(str)
         /\ Blank(SubSeq(str, 1, a))
         /\ SubSeq(str, a + 1, a + Len(r)) = r
         /\ Blank(SubSeq(str, a + Len(r) + 1, Len(str)))

ResolvedPaths == parseImagePaths(args.ImagePaths)

HoldsVideo(e) == e.dyn = "*EmbedVideo" /\ ~e.isNil

HoldsImages(e) == e.dyn = "*EmbedImages" /\ ~e.isNil

\* C1: embed selection has a fixed priority.  With a non-empty video path
\* no image is read or uploaded, no link card is fetched and a published
\* post carries the video embed; otherwise with image paths no video request
\* and no link-card fetch is made; otherwise with embeds enabled and a URL in
\* the text the link card is fetched once, for the first URL; otherwise a
\* published post has no embed.
C1_SelectionPriority ==
    LET urls == parseRichTextFacets(args.Text)
    IN  /\ args.VideoPath # <<>> =>
             /\ Sent("uploadBlob") = <<>> /\ Sent("linkFetch") = <<>>
             /\ \A k \in 1..Len(reads) : reads[k] = TrimSpace(args.VideoPath)
             /\ post.built => /\ "video" \in post.json.keys
                              /\ post.json.type = "app.bsky.embed.video"
        /\ args.VideoPath = <<>> /\ args.ImagePaths # <<>> =>
             /\ \A ep \in VideoEndpoints \cup {"linkFetch"} : Sent(ep) = <<>>
             /\ \A k \in 1..Len(reads) : \E n \in 1..Len(ResolvedPaths) :
                                             reads[k] = ResolvedPaths[n]
        /\ args.VideoPath = <<>> /\ args.ImagePaths = <<>> =>
             /\ reads = <<>> /\ Sent("uploadBlob") = <<>>
             /\ \A ep \in VideoEndpoints : Sent(ep) = <<>>
             /\ IF args.EnableEmbeds /\ Len(urls) > 0
                THEN /\ Len(Sent("linkFetch")) <= 1
                     /\ \A k \in 1..Len(Sent("linkFetch")) :
                            Sent("linkFetch")[k].target = urls[1].URI
                     /\ post.built => Len(Sent("linkFetch")) = 1
                ELSE /\ Sent("linkFetch") = <<>>
                     /\ post.built => ~post.json.present

\* C2: the record handed to the publisher carries at most one embed kind
\* (video, images or external link), and exactly one when it carries an
\* embed object; its $type and its payload never name two kinds.
C2_OneEmbedKind ==
    post.built =>
        /\ Cardinality(embedKinds(post.json)) <= 1
        /\ (post.json.present /\ ~post.json.null) =>
               Cardinality(embedKinds(post.json)) = 1

C2_Witness == post.built /\ embedKinds(post.json) = {"video"}

\* C3: once the video or the image processor has failed, publishPost is not
\* called and the process has exited with a non-zero status.
C3_ProcessorFailureAborts ==
    err \in ProcessorErrors =>
        /\ pc = "exited"
        /\ exitCode \notin {-1, 0}
        /\ ~post.built
        /\ Sent("createRecord") = <<>>

C3_Witness == err = "ProcessingFailed" /\ pc = "exited" /\ exitCode = 1

\* C4: with more than 4 resolved image paths processImages fails with the
\* too-many-images error before any file is read or any blob uploaded.
C4_TooManyBeforeAnyWork ==
    /\ (session.ok /\ pc \notin {"select", "processImages"}
        /\ args.VideoPath = <<>> /\ Len(ResolvedPaths) > 4) =>
           /\ err = "TooManyImages"
           /\ pc = "exited"
    /\ err = "TooManyImages" =>
           /\ Len(ResolvedPaths) > 4
           /\ reads = <<>>
           /\ Sent("uploadBlob") = <<>>

C4_Witness == err = "TooManyImages" /\ Len(ResolvedPaths) = 5 /\ reads = <<>>

\* C5: an images embed returned by processImages has between 1 and 4
\* entries, as many as there are resolved input paths.
C5_ImagesEmbedSize ==
    HoldsImages(embed) =>
        /\ Len(embed.Images) >= 1
        /\ Len(embed.Images) <= 4
        /\ Len(embed.Images) = Len(ResolvedPaths)

C5_Witness == HoldsImages(embed) /\ Len(embed.Images) = 4

\* C6: blob uploads are issued in the order of the resolved paths, and
\* entry i of the images embed is the blob returned for path i with the alt
\* text resolved for index i; a path given twice is uploaded twice.
C6_UploadAndEmbedOrder ==
    LET ups == Sent("uploadBlob")
    IN  /\ Len(ups) <= Len(ResolvedPaths)
        /\ \A k \in 1..Len(ups) : ups[k].target = ResolvedPaths[k]
        /\ HoldsImages(embed) =>
             /\ Len(ups) = Len(ResolvedPaths)
             /\ Len(embed.Images) = Len(ups)
             /\ \A k \in 1..Len(ups) :
                  /\ embed.Images[k].Image.Link = ups[k].blob
                  /\ embed.Images[k].Alt =
                         resolveAltText(k - 1, Split(args.ImageAltTexts))

C6_Witness ==
    /\ HoldsImages(embed)
    /\ Len(embed.Images) = 2
    /\ ResolvedPaths[1] = ResolvedPaths[2]
    /\ embed.Images[1].Image.Link = 2
    /\ embed.Images[2].Image.Link = 1

\* C7: an image-path input that resolves to zero paths makes the execution
\* neither fail in image processing nor crash; a post it publishes has no
\* images embed.
C7_ZeroPathsStillPublishes ==
    (args.VideoPath = <<>> /\ ResolvedPaths = <<>>) =>
        /\ err \notin ProcessorErrors \cup {"panic"}
        /\ exitCode # 2
        /\ post.built => "images" \notin post.json.keys

\* C8: every attachment of a produced embed has a non-blank alt text; a
\* blank or empty video alt text is replaced by the default label Video.
C8_AltTextNeverBlank ==
    /\ HoldsImages(embed) =>
           \A k \in 1..Len(embed.Images) : ~Blank(embed.Images[k].Alt)
    /\ HoldsVideo(embed) =>
           /\ ~Blank(embed.Alt)
           /\ Blank(args.VideoAltText) => embed.Alt = <<"V","i","d","e","o">>

\* the decimal numeral of n, for n below 100
Numeral(n) == IF n < 10 THEN <<Digits[n + 1]>>
              ELSE <<Digits[(n \div 10) + 1], Digits[(n % 10) + 1]>>

\* C9: resolveAltText(i, alts) is the trimmed alts[i] when i is in range
\* and alts[i] is not blank; otherwise the trimmed alts[0] when alts has
\* exactly one element and it is not blank; otherwise the label
\* Image <i+1>.
C9_ResolveAltText ==
    pc = "returned" =>
        LET i == fnIn.index
            alts == fnIn.altTexts
            label == <<"I","m","a","g","e"," ">> \o Numeral(i + 1)
        IN  IF i < Len(alts) /\ ~Blank(alts[i + 1])
            THEN IsTrimOf(fnOut, alts[i + 1])
            ELSE IF Len(alts) = 1 /\ ~Blank(alts[1])
            THEN IsTrimOf(fnOut, alts[1])
            ELSE fnOut = label

C9_Witness ==
    /\ pc = "returned"
    /\ fnIn.index = 10
    /\ Len(fnIn.altTexts) = 2
    /\ ~Blank(fnIn.altTexts[1])
    /\ fnOut = <<"I","m","a","g","e"," ","1","1">>

\* C10: the size ceilings are inclusive.  An image that passed validation
\* has at most 1,000,000 bytes, one rejected for its size has at least
\* 1,000,001, and one rejected for its format is within the ceiling; the
\* same holds of videos with the ceiling 50 * 1,048,576.
C10_InclusiveCeilings ==
    /\ pc = "uploadBlob" =>
           /\ images.imageData.size <= 1000000
           /\ detectImageMimeType(images.paths[images.i + 1]) # ""
    /\ err = "ImageSizeExceeded" => images.imageData.size >= 1000001
    /\ err = "UnsupportedImageFormat" => images.imageData.size <= 1000000
    /\ pc = "getServiceAuth" =>
           /\ video.videoData.size <= 50 * 1048576
           /\ detectVideoMimeType(video.path) # ""
    /\ err = "VideoSizeExceeded" => video.videoData.size >= 50 * 1048576 + 1
    /\ err = "UnsupportedVideoFormat" => video.videoData.size <= 50 * 1048576

C10_Witness == pc = "uploadBlob" /\ images.imageData.size = 1000000

\* C11: validation tests the size before the format, for images and for
\* videos: a file over the size ceiling is rejected with the size-exceeded
\* error whatever its extension, and the unsupported-format error is only
\* returned for a file whose size is within the ceiling.
ImageUnderValidation == images.paths[images.i + 1]

C11_SizeBeforeFormat ==
    /\ err \in {"ImageSizeExceeded", "UnsupportedImageFormat"} =>
         /\ images.imageData.size > 1000000 => err = "ImageSizeExceeded"
         /\ err = "UnsupportedImageFormat" =>
              /\ images.imageData.size <= 1000000
              /\ detectImageMimeType(ImageUnderValidation) = ""
    /\ err \in {"VideoSizeExceeded", "UnsupportedVideoFormat"} =>
         /\ video.videoData.size > 50 * 1024 * 1024 => err = "VideoSizeExceeded"
         /\ err = "UnsupportedVideoFormat" =>
              /\ video.videoData.size <= 50 * 1024 * 1024
              /\ detectVideoMimeType(video.path) = ""

\* an oversized video with an unrecognized extension, rejected for its size
C11_Witness ==
    /\ err = "VideoSizeExceeded"
    /\ video.videoData.size > 50 * 1024 * 1024
    /\ detectVideoMimeType(video.path) = ""

\* C12: MIME detection depends only on the file extension, whatever its
\* case: .jpg and .jpeg give image/jpeg, .png image/png, .gif image/gif,
\* .webp image/webp; .mp4 gives video/mp4, .mov video/quicktime, .webm
\* video/webm; every other extension, and no extension, gives no type; no
\* file name gets both an image type and a video type.
ClaimedImageType(ext) ==
    IF ext \in {<<".","j","p","g">>, <<".","j","p","e","g">>} THEN "image/jpeg"
    ELSE IF ext = <<".","p","n","g">> THEN "image/png"
    ELSE IF ext = <<".","g","i","f">> THEN "image/gif"
    ELSE IF ext = <<".","w","e","b","p">> THEN "image/webp"
    ELSE ""

ClaimedVideoType(ext) ==
    IF ext = <<".","m","p","4">> THEN "video/mp4"
    ELSE IF ext = <<".","m","o","v">> THEN "video/quicktime"
    ELSE IF ext = <<".","w","e","b","m">> THEN "video/webm"
    ELSE ""

C12_MimeByExtension ==
    (pc = "returned" /\ fnIn.fn = "detectMimeType") =>
        /\ fnOut[1] = ClaimedImageType(fnIn.ext)
        /\ fnOut[2] = ClaimedVideoType(fnIn.ext)
        /\ fnOut[1] = "" \/ fnOut[2] = ""

\* d.png/a.MoV: the directory's extension is ignored, the file's is
\* recognized in mixed case
C12_Witness ==
    /\ pc = "returned"
    /\ fnIn.fn = "detectMimeType"
    /\ fnIn.filename = <<"d",".","p","n","g","/","a",".","M","o","V">>
    /\ fnOut = <<"", "video/quicktime">>

\* C13: parseImagePaths returns exactly the non-blank comma-separated
\* segments of its input, each trimmed of surrounding white space, in
\* their original order; no returned path is empty or starts or ends with
\* white space; an input that is empty or holds only commas and white
\* space gives the empty list.
NthOf(S, n) == CHOOSE x \in S : Cardinality({y \in S : y <= x}) = n

\* the segments of str between its commas, by position
SegmentsBetweenCommas(str) ==
    LET commas == {k \in 1..Len(str) : str[k] = ","}
        n == Cardinality(commas)
        edge(j) == IF j = 0 THEN 0
                   ELSE IF j = n + 1 THEN Len(str) + 1
                   ELSE NthOf(commas, j)
    IN  [j \in 1..(n + 1) |->
            [k \in 1..(edge(j) - edge(j - 1) - 1) |-> str[edge(j - 1) + k]]]

C13_ParseImagePaths ==
    (pc = "returned" /\ fnIn.fn = "parseImagePaths") =>
        LET segs == SegmentsBetweenCommas(fnIn.imagePaths)
            kept == {j \in 1..Len(segs) : ~Blank(segs[j])}
        IN  /\ Len(fnOut) = Cardinality(kept)
            /\ \A m \in 1..Len(fnOut) :
                 /\ IsTrimOf(fnOut[m], segs[NthOf(kept, m)])
                 /\ fnOut[m] # <<>>
                 /\ ~IsSpace(fnOut[m][1])
                 /\ ~IsSpace(fnOut[m][Len(fnOut[m])])
            /\ (\A k \in 1..Len(fnIn.imagePaths) :
                   fnIn.imagePaths[k] \in {",", " "}) => fnOut = <<>>

\* leading white space trimmed and an empty segment dropped
C13_Witness ==
    /\ pc = "returned"
    /\ fnIn.fn = "parseImagePaths"
    /\ fnIn.imagePaths = <<" ", "a", ",", ",", "b">>
    /\ fnOut = << <<"a">>, <<"b">> >>

\* C14: when the accepted video upload response already carries a job
\* status with a blob, processVideo returns a video embed holding exactly
\* that blob, no job-status request is ever sent and no poll delay is
\* slept.
C14_ImmediateBlob ==
    \A k \in 1..Len(requests) :
        LET u == requests[k]
        IN  (u.ep = "uploadVideo" /\ u.status \in {200, 201} /\ u.bodyOK /\ u.blob # 0) =>
                /\ \A j \in 1..Len(requests) : requests[j].ep # "getJobStatus"
                /\ video.elapsed = 0
                /\ pc \in {"publish", "exited"}
                /\ err \notin ProcessorErrors
                /\ HoldsVideo(embed)
                /\ embed.Video = [Link |-> u.blob]

\* the upload answered 201 with a blob; nothing was polled
C14_Witness ==
    /\ pc = "publish"
    /\ Len(requests) = 3
    /\ requests[3].ep = "uploadVideo"
    /\ requests[3].status = 201
    /\ requests[3].blob = 1
    /\ HoldsVideo(embed)

\* C15: polling does not run forever. While every job-status response is
\* a success response with no blob, a state other than failed and an empty
\* error, each iteration moves the clock on by at least the poll delay, and
\* once more than five minutes have elapsed since polling began the loop
\* sends nothing more and ends with the timed-out error, exit status 1;
\* that error is never the processing-failed error and is only returned
\* after the deadline, every job-status response having been such a one.
StillProcessing(r) == r.status = 200 /\ r.bodyOK /\ r.blob = 0

C15_PollingTimesOut ==
    /\ [](/\ pc = "poll" => video.elapsed <= 5 * 60 + SlowCall + 2
          /\ err = "ProcessingTimedOut" =>
                /\ video.elapsed > 5 * 60
                /\ pc = "exited" /\ exitCode = 1
                /\ \A k \in 1..Len(Sent("getJobStatus")) :
                     StillProcessing(Sent("getJobStatus")[k]))
    /\ [][pc = "poll" =>
            IF video.elapsed > 5 * 60
            THEN /\ pc' = "exited"
                 /\ err' = "ProcessingTimedOut"
                 /\ err' # "ProcessingFailed"
                 /\ requests' = requests
            ELSE /\ Len(requests') = Len(requests) + 1
                 /\ pc' = "poll" => video.elapsed' >= video.elapsed + 2
                 /\ err' # "ProcessingTimedOut"]_vars

\* 151 fast polls, at 0, 2, ..., 300 seconds, then the deadline
C15_Witness ==
    /\ err = "ProcessingTimedOut"
    /\ Len(Sent("getJobStatus")) = 151
    /\ video.elapsed = 302

\* C16: a job-status response with a status other than 200 whose body
\* decodes, has the error code already_exists and embeds a job status with
\* a blob counts as success: polling ends with it, that blob is returned
\* and the video embed is built from it.
AlreadyProcessed(r) ==
    r.status \notin {0, 200} /\ r.bodyOK /\ r.error = "already_exists" /\ r.blob # 0

C16_AlreadyExistsIsSuccess ==
    \A k \in 1..Len(requests) :
        (requests[k].ep = "getJobStatus" /\ AlreadyProcessed(requests[k])) =>
            /\ \A j \in (k + 1)..Len(requests) : requests[j].ep # "getJobStatus"
            /\ pc \in {"publish", "exited"}
            /\ err \notin ProcessorErrors
            /\ HoldsVideo(embed)
            /\ embed.Video = [Link |-> requests[k].blob]

\* a 409 already_exists answer to the third poll
C16_Witness ==
    /\ pc = "publish"
    /\ Len(requests) = 6
    /\ requests[6].ep = "getJobStatus"
    /\ requests[6].status = 409
    /\ AlreadyProcessed(requests[6])
    /\ HoldsVideo(embed)

\* C17: processVideos given an empty or a whitespace-only path returns no
\* embed and no error without reading any file or sending any request:
\* both paths take the early return, and once main has called it with a
\* blank path no file was read, no request went to a video endpoint, no
\* processor error is set and the embed holds no video.
C17_BlankVideoPathDoesNothing ==
    /\ noVideoPath(<<>>)
    /\ (/\ args.VideoPath # <<>>
        /\ Blank(args.VideoPath)
        /\ session.ok
        /\ pc \notin {"select", "processVideos"}) =>
            /\ reads = <<>>
            /\ \A k \in 1..Len(requests) : requests[k].ep \notin VideoEndpoints
            /\ err \notin ProcessorErrors
            /\ embed = NilPointer("*EmbedVideo")
            /\ video = NoVideo

\* main back from processVideos(" "): only the session request was sent
C17_Witness ==
    /\ pc = "publish"
    /\ args.VideoPath = <<" ">>
    /\ embed = NilPointer("*EmbedVideo")
    /\ reads = <<>>
    /\ Len(requests) = 1

\* C18: a blank (whitespace-only) video path counts as no video path when
\* the embed is selected: with image paths the image processor runs and
\* the published post carries the images embed; with no image paths,
\* embeds enabled and a URL in the text, the link-card fetch is made.
C18_BlankVideoPathFallsThrough ==
    (args.VideoPath # <<>> /\ Blank(args.VideoPath) /\ post.built) =>
        /\ ResolvedPaths # <<>> =>
              /\ reads # <<>>
              /\ embedKinds(post.json) = {"images"}
        /\ (args.ImagePaths = <<>> /\ args.EnableEmbeds /\ Len(facets) > 0) =>
              \E k \in 1..Len(requests) : requests[k].ep = "linkFetch"

\* C19: session creation, record publish and blob upload accept only the
\* status 200, the video upload accepts 200 and 201 and nothing else; a
\* call returns an error for every status outside its accepted set, and a
\* session or publish failure ends the process with a non-zero status.
\* As worded, the call succeeds for every response inside the set.
StatusEndpoints == {"createSession", "createRecord", "uploadBlob", "uploadVideo"}

AcceptedStatuses(ep) == IF ep = "uploadVideo" THEN {200, 201} ELSE {200}

\* the call logged at position k returned an error
CallFailed(k) ==
    CASE requests[k].ep = "createSession" -> ~session.ok
      [] requests[k].ep = "createRecord"  -> err = "PublishPost"
      [] requests[k].ep = "uploadBlob"    -> err = "BlobUpload" /\ k = Len(requests)
      [] requests[k].ep = "uploadVideo"   -> err = "VideoUpload"

ExitsNonZero == pc = "exited" /\ exitCode = 1

FailureIsFatal(k) ==
    (CallFailed(k) /\ requests[k].ep \in {"createSession", "createRecord"}) =>
        ExitsNonZero /\ k = Len(requests)

C19_StatusAlone ==
    \A k \in 1..Len(requests) :
        requests[k].ep \in StatusEndpoints =>
            /\ CallFailed(k) <=> requests[k].status \notin AcceptedStatuses(requests[k].ep)
            /\ FailureIsFatal(k)

\* C19, amended: inside its accepted set a call succeeds exactly when the
\* response body decodes, for the three calls that decode it (session
\* creation, blob upload, video upload); the publish call does not read
\* the body of a 200 response and always succeeds on it. Publish success
\* is exit status 0.
DecodesBody(ep) == ep # "createRecord"

C19_StatusAndBody ==
    \A k \in 1..Len(requests) :
        requests[k].ep \in StatusEndpoints =>
            /\ CallFailed(k) <=>
                 \/ requests[k].status \notin AcceptedStatuses(requests[k].ep)
                 \/ DecodesBody(requests[k].ep) /\ ~requests[k].bodyOK
            /\ FailureIsFatal(k)
            /\ (requests[k].ep = "createRecord" /\ ~CallFailed(k)) => exitCode = 0

\* the video upload answered 201 and processing went on to poll
C19_Witness ==
    /\ pc = "poll"
    /\ Len(requests) = 3
    /\ requests[3].ep = "uploadVideo"
    /\ requests[3].status = 201
    /\ ~CallFailed(3)

\* C20: the steps of video processing run in the order file read,
\* validation, service-auth exchange, upload, then the immediate blob or
\* polling, then completion. A service-auth request is only sent after the
\* file was read and passed validation, an upload request only after the
\* service-auth exchange succeeded, a job-status request only after the
\* upload was accepted; a failure at any step ends processing with its
\* error and nothing of a later step is done.
VideoValidated ==
    /\ reads = <<video.path>>
    /\ video.videoData.size <= 50 * 1024 * 1024
    /\ detectVideoMimeType(video.path) # ""

AuthObtainedAt(k) ==
    /\ k >= 1
    /\ requests[k].ep = "getServiceAuth"
    /\ requests[k].status = 200
    /\ requests[k].bodyOK

UploadAcceptedAt(k) ==
    /\ k >= 1
    /\ requests[k].ep = "uploadVideo"
    /\ requests[k].status \in {200, 201}
    /\ requests[k].bodyOK

VideoRequestsInOrder ==
    \A k \in 1..Len(requests) :
        /\ requests[k].ep = "getServiceAuth" =>
              /\ VideoValidated
              /\ \A j \in 1..(k - 1) : requests[j].ep \notin VideoEndpoints
        /\ requests[k].ep = "uploadVideo" =>
              /\ AuthObtainedAt(k - 1)
              /\ requests[k].auth = video.serviceToken
        /\ requests[k].ep = "getJobStatus" =>
              \/ UploadAcceptedAt(k - 1) /\ requests[k - 1].blob = 0
              \/ k > 1 /\ requests[k - 1].ep = "getJobStatus" /\ StillProcessing(requests[k - 1])
        /\ requests[k].ep = "createRecord" =>
              k = Len(requests) /\ err \notin ProcessorErrors

\* what has been done when the error of each step is returned
VideoFailureEndsProcessing ==
    LET last == requests[Len(requests)].ep
        noVideoRequest == \A k \in 1..Len(requests) : requests[k].ep \notin VideoEndpoints
    IN  /\ err = "ReadVideoFile" => reads = <<video.path>> /\ video.videoData = NoData /\ noVideoRequest
        /\ err \in {"VideoSizeExceeded", "UnsupportedVideoFormat"} =>
              reads = <<video.path>> /\ noVideoRequest
        /\ err = "ServiceAuth" => last = "getServiceAuth" /\ video.serviceToken = ""
        /\ err = "VideoUpload" => last = "uploadVideo"
        /\ err \in {"JobStatus", "ProcessingFailed", "ProcessingTimedOut"} =>
              last = "getJobStatus"
        /\ err \in {"ReadVideoFile", "VideoSizeExceeded", "UnsupportedVideoFormat",
                    "ServiceAuth", "VideoUpload", "JobStatus", "ProcessingFailed",
                    "ProcessingTimedOut"} =>
              pc = "exited" /\ exitCode = 1 /\ ~post.built /\ ~HoldsVideo(embed)

C20_VideoStepOrder ==
    /\ VideoRequestsInOrder
    /\ VideoFailureEndsProcessing
    /\ pc \in {"validateVideo", "getServiceAuth", "uploadVideo", "poll"} =>
          reads = <<video.path>>
    /\ HoldsVideo(embed) =>
          \E k \in 1..Len(requests) :
              /\ UploadAcceptedAt(k)
              /\ embed.Video.Link \in {requests[j].blob : j \in k..Len(requests)}

\* read, validated, token obtained, upload accepted, two polls, blob
C20_Witness ==
    /\ pc = "publish"
    /\ HoldsVideo(embed)
    /\ Len(requests) = 5
    /\ AuthObtainedAt(2)
    /\ UploadAcceptedAt(3)
    /\ requests[4].ep = "getJobStatus"
    /\ requests[5].ep = "getJobStatus"
    /\ requests[5].blob = embed.Video.Link

\* C21: the exits of the polling loop are exclusive and taken in the
\* priority blob, explicit failure, deadline: a job status that carries a
\* blob (from a 200 response or from an already_exists response) ends in
\* success even if its state is failed or its error is set and even if the
\* deadline passed while it was fetched; a decoded status without blob that
\* is failed ends in the processing-failed error whether or not the
\* deadline passed; the timed-out error is only returned after a status
\* that is neither.
Decoded200(r) == r.status = 200 /\ r.bodyOK

CarriesBlob(r) == (Decoded200(r) /\ r.blob # 0) \/ AlreadyProcessed(r)

LastJobStatus == requests[Len(requests)]

PollEnded ==
    /\ Len(requests) > 0
    /\ LastJobStatus.ep = "getJobStatus"
    /\ pc = "exited" \/ pc = "publish"

C21_PollExitPriority ==
    /\ \A k \in 1..Len(requests) :
         requests[k].ep = "getJobStatus" =>
            /\ CarriesBlob(requests[k]) =>
                  /\ k = Len(requests) \/ requests[k + 1].ep = "createRecord"
                  /\ HoldsVideo(embed)
                  /\ embed.Video = [Link |-> requests[k].blob]
                  /\ err \notin ProcessorErrors
            /\ (Decoded200(requests[k]) /\ requests[k].blob = 0 /\ requests[k].failed) =>
                  /\ k = Len(requests)
                  /\ err = "ProcessingFailed"
    /\ err = "ProcessingTimedOut" =>
          /\ Decoded200(LastJobStatus)
          /\ LastJobStatus.blob = 0
          /\ ~LastJobStatus.failed
          /\ video.elapsed > 5 * 60

\* a blob in a status whose state is failed, fetched by a call that
\* returned after the deadline
C21_Witness ==
    /\ pc = "publish"
    /\ LastJobStatus.ep = "getJobStatus"
    /\ LastJobStatus.status = 200
    /\ LastJobStatus.blob # 0
    /\ LastJobStatus.failed
    /\ video.elapsed > 5 * 60
    /\ HoldsVideo(embed)

\* C22: a 200 job-status response that decodes, has no blob, and whose
\* state is failed or whose error field is non-empty (whatever the state)
\* ends polling at once with the processing-failed error: it is the last
\* request of the run, no video embed is produced, no post is built or
\* published and the process exits with status 1.
ReportsFailure(r) ==
    r.ep = "getJobStatus" /\ r.status = 200 /\ r.bodyOK /\ r.blob = 0 /\ r.failed

C22_ProcessingFailed ==
    \A k \in 1..Len(requests) :
        ReportsFailure(requests[k]) =>
            /\ k = Len(requests)
            /\ pc = "exited"
            /\ exitCode = 1
            /\ err = "ProcessingFailed"
            /\ ~HoldsVideo(embed)
            /\ ~post.built

\* the failure is reported by the third poll
C22_Witness ==
    /\ Len(requests) = 6
    /\ ReportsFailure(requests[6])
    /\ requests[5].ep = "getJobStatus"
    /\ err = "ProcessingFailed"
    /\ pc = "exited"

\* C23: once a job-status poll has returned a blob or reported failure no
\* further job-status request is sent and the loop is not entered again.
TerminalObservation(r) ==
    r.ep = "getJobStatus" /\ (CarriesBlob(r) \/ ReportsFailure(r))

C23_TerminalObservationIsFinal ==
    \A k \in 1..Len(requests) :
        TerminalObservation(requests[k]) =>
            /\ \A j \in (k + 1)..Len(requests) : requests[j].ep # "getJobStatus"
            /\ pc # "poll"

\* the blob came with the second poll and the post was then published
C23_Witness ==
    /\ Len(requests) = 6
    /\ requests[4].ep = "getJobStatus"
    /\ TerminalObservation(requests[5])
    /\ requests[5].blob # 0
    /\ requests[6].ep = "createRecord"
    /\ exitCode = 0

\* C24: nothing is retried. In one execution the service-auth exchange and
\* the video upload are each requested at most once and the j-th blob
\* upload is for the j-th image path, so no path entry is uploaded twice;
\* one non-success response from the service-auth, video-upload,
\* blob-upload or job-status endpoint (the already_exists answer with a
\* blob excepted) is the last request of the run, which ends with the
\* error of that step and exit status 1, also when it answers a job-status
\* poll of a job that was still processing.
PositionsOf(ep) == {k \in 1..Len(requests) : requests[k].ep = ep}

NonSuccess(r) ==
    CASE r.ep = "getServiceAuth" -> r.status # 200
      [] r.ep = "uploadVideo"    -> r.status \notin {200, 201}
      [] r.ep = "uploadBlob"     -> r.status # 200
      [] r.ep = "getJobStatus"   -> r.status # 200 /\ ~AlreadyProcessed(r)
      [] OTHER                   -> FALSE

StepError(ep) ==
    CASE ep = "getServiceAuth" -> "ServiceAuth"
      [] ep = "uploadVideo"    -> "VideoUpload"
      [] ep = "uploadBlob"     -> "BlobUpload"
      [] ep = "getJobStatus"   -> "JobStatus"

C24_NothingIsRetried ==
    /\ Cardinality(PositionsOf("getServiceAuth")) <= 1
    /\ Cardinality(PositionsOf("uploadVideo")) <= 1
    /\ Cardinality(PositionsOf("uploadBlob")) <= Len(images.paths)
    /\ \A k \in PositionsOf("uploadBlob") :
         requests[k].target =
             images.paths[Cardinality({j \in PositionsOf("uploadBlob") : j <= k})]
    /\ \A k \in 1..Len(requests) :
         NonSuccess(requests[k]) =>
            /\ k = Len(requests)
            /\ pc = "exited"
            /\ exitCode = 1
            /\ err = StepError(requests[k].ep)

\* two polls found the job still processing, the third was answered 409
\* without a blob
C24_Witness ==
    /\ Len(requests) = 6
    /\ requests[4].ep = "getJobStatus" /\ StillProcessing(requests[4]) /\ ~requests[4].failed
    /\ requests[5].ep = "getJobStatus" /\ StillProcessing(requests[5]) /\ ~requests[5].failed
    /\ requests[6].ep = "getJobStatus" /\ requests[6].status = 409
    /\ err = "JobStatus"
    /\ pc = "exited"

\* C25: within one video processing attempt one service token is minted,
\* by a single service-auth exchange, and the upload request and every
\* job-status request carry that token: no request to the video service
\* is sent with another one.
C25_OneServiceToken ==
    \A k \in 1..Len(requests) :
        /\ requests[k].ep = "getServiceAuth" => k = 2
        /\ requests[k].host = "video" =>
              /\ requests[k].ep \in {"uploadVideo", "getJobStatus"}
              /\ requests[k].auth = video.serviceToken
              /\ k > 2
              /\ AuthObtainedAt(2)

\* the upload and three polls, all with the token of the one exchange
C25_Witness ==
    /\ pc = "poll"
    /\ Len(requests) = 6
    /\ video.serviceToken = "svcJwt1"
    /\ requests[2].ep = "getServiceAuth"
    /\ \A k \in 3..6 : requests[k].host = "video" /\ requests[k].auth = "svcJwt1"

\* C26: when image k (counted from 0) fails at read, validation or upload
\* the batch is aborted: files were read for images 0..k only, blobs were
\* uploaded for images 0..k-1 (and requested for image k if the upload is
\* what failed), nothing is read or uploaded for a later image, the error
\* is returned with no embed, no post is built, the process exits with
\* status 1, and no request other than the session request and the blob
\* uploads was sent: nothing deletes the blobs already uploaded.
ImageStepErrors ==
    {"ReadImageFile", "ImageSizeExceeded", "UnsupportedImageFormat", "BlobUpload"}

C26_ImageFailureAbortsBatch ==
    err \in ImageStepErrors =>
        LET k == images.i
            uploads == PositionsOf("uploadBlob")
            accepted == {j \in uploads : requests[j].status = 200 /\ requests[j].bodyOK}
        IN  /\ k < Len(images.paths)
            /\ reads = SubSeq(images.paths, 1, k + 1)
            /\ Cardinality(accepted) = k
            /\ Cardinality(uploads) = IF err = "BlobUpload" THEN k + 1 ELSE k
            /\ \A j \in 1..Len(requests) :
                 requests[j].ep \in {"createSession", "uploadBlob"}
            /\ pc = "exited"
            /\ exitCode = 1
            /\ embed.isNil
            /\ ~post.built

\* the third of four images is oversized after two blobs were uploaded
C26_Witness ==
    /\ err = "ImageSizeExceeded"
    /\ images.i = 2
    /\ Len(images.paths) = 4
    /\ Len(reads) = 3
    /\ Cardinality(PositionsOf("uploadBlob")) = 2
    /\ pc = "exited"

\* C27: the dimensions of an image are probed after its blob upload
\* succeeded and the probe cannot fail the image: the entry appended for an
\* uploaded image holds its blob and alt text, and holds an aspect ratio
\* (the decoded width and height) exactly when the header decodes; with an
\* undecodable header the entry has no aspect ratio, no error is set and
\* the batch goes on. An image whose upload failed gets no entry.
JustUploaded ==
    /\ images.i >= 1
    /\ \/ pc = "readImage"
       \/ pc \in {"publish", "exited"} /\ HoldsImages(embed)

C27_DimensionsBestEffort ==
    /\ JustUploaded =>
          LET entry == images.embedImages[images.i]
              data == images.imageData
              uploads == PositionsOf("uploadBlob")
              last == CHOOSE k \in uploads : \A j \in uploads : j <= k
          IN  /\ Len(images.embedImages) = images.i
              /\ entry.Image = [Link |-> requests[last].blob]
              /\ entry.Alt = images.altText
              /\ entry.AspectRatio.isNil <=> ~data.decodes
              /\ ~entry.AspectRatio.isNil =>
                    /\ entry.AspectRatio.Width = data.width
                    /\ entry.AspectRatio.Height = data.height
              /\ err \notin ProcessorErrors
    /\ err = "BlobUpload" => Len(images.embedImages) = images.i

\* the first image has no decodable header, the second has; both are in
\* the embed
C27_Witness ==
    /\ pc = "publish"
    /\ HoldsImages(embed)
    /\ Len(embed.Images) = 2
    /\ embed.Images[1].AspectRatio.isNil
    /\ ~embed.Images[2].AspectRatio.isNil
    /\ embed.Images[1].Image.Link # 0

\* C28: whenever the selected branch yields no embed value (the link-card
\* fetch returns nothing, or the video branch is entered with a blank
\* path) the record handed to the publisher has no embed field at all: an
\* absent embed is never sent as an embed field holding null.
C28_NoNullEmbed ==
    (post.built /\ post.Embed.isNil) =>
        /\ ~post.json.present
        /\ ~post.json.null

\* C29: the session access token is sent to the PDS only, with the
\* service-auth exchange, the blob upload and the record publish; every
\* request to the video service (upload and job status) carries the
\* service token and not the session access token; the link-card fetch and
\* the session creation carry no token.
C29_TokenConfinement ==
    \A k \in 1..Len(requests) :
        LET r == requests[k]
        IN  /\ r.auth = "accessJwt" =>
                  /\ r.host = "pds"
                  /\ r.ep \in {"getServiceAuth", "uploadBlob", "createRecord"}
            /\ r.ep \in {"getServiceAuth", "uploadBlob", "createRecord"} =>
                  r.host = "pds" /\ r.auth = session.AccessToken
            /\ r.ep \in {"uploadVideo", "getJobStatus"} =>
                  /\ r.host = "video"
                  /\ r.auth = video.serviceToken
                  /\ r.auth # session.AccessToken
            /\ r.ep = "linkFetch" => r.host = "web" /\ r.auth = ""
            /\ r.ep = "createSession" => r.host = "pds" /\ r.auth = ""

\* a video run to the end: session token to the PDS twice, service token
\* to the video service twice
C29_Witness ==
    /\ Len(requests) = 5
    /\ requests[2].ep = "getServiceAuth" /\ requests[2].auth = "accessJwt"
    /\ requests[3].ep = "uploadVideo" /\ requests[3].auth = "svcJwt1"
    /\ requests[4].ep = "getJobStatus" /\ requests[4].auth = "svcJwt1"
    /\ requests[5].ep = "createRecord" /\ requests[5].auth = "accessJwt"
    /\ exitCode = 0

\* C30: the number of job-status requests per job is bounded. The first
\* request is sent with no sleep before it, each response that does not
\* end the loop is followed by one sleep of 2 seconds, and no request is
\* sent once more than 300 seconds have elapsed since polling began; with
\* calls that take no time the requests are sent at 0, 2, ..., 300
\* seconds, so at most 151 are made before the timed-out error.
JobStatusCount == Cardinality(PositionsOf("getJobStatus"))

JobStatusSentIn(before, after) ==
    /\ Len(after) = Len(before) + 1
    /\ after[Len(after)].ep = "getJobStatus"

C30_BoundedPolling ==
    /\ [](/\ JobStatusCount <= 151
          /\ pc = "poll" =>
                \E slow \in {0, 1} :
                    video.elapsed = 2 * JobStatusCount + slow * SlowCall
          /\ err = "ProcessingTimedOut" => video.elapsed >= 2 * JobStatusCount)
    /\ [][JobStatusSentIn(requests, requests') =>
            /\ pc = "poll"
            /\ video.elapsed <= 300
            /\ video.elapsed >= 2 * JobStatusCount
            /\ pc' = "poll" => video.elapsed' - video.elapsed \in {2, 2 + SlowCall}
            /\ pc' # "poll" => video.elapsed' - video.elapsed \in {0, SlowCall}]_vars

\* after the 151st request, sent at 300 seconds, and the sleep that
\* follows it
C30_Witness ==
    /\ pc = "poll"
    /\ JobStatusCount = 151
    /\ video.elapsed = 302

====
